---- MODULE Spec2Model ----
(***************************************************************************)
(* Model of the sensor-node firmware src/sensors/02072024_mvp.cpp:        *)
(* setup(), the steps of loop(), the credential functions obtainTokens()  *)
(* and refreshToken(), the uploader sendDataToAPI() and the EEPROM string *)
(* store.                                                                  *)
(*                                                                         *)
(* Time is millis() in milliseconds.  The model explores the first        *)
(* MaxIter passes of loop() after each boot, which end far below 2^32 ms, *)
(* so the 32-bit counter does not wrap inside the explored window; the    *)
(* lease arithmetic at the wrap is explored on its own (WrapSpec).        *)
(*                                                                         *)
(* Strings held in RAM (tokens) are TLA+ strings; strings held in the     *)
(* EEPROM are sequences of byte values 1..255, a cell holds 0..255.       *)
(***************************************************************************)
EXTENDS Integers, Sequences, FiniteSets, TLC

(***************************************************************************)
(* Program constants.                                                      *)
(***************************************************************************)
EEPROM_SIZE == 512
SSID_ADDR == 0
PASSWORD_ADDR == 50
READ_MAX == 50
LEASE_MS == 300000
LOOP_DELAY_MS == 2000
FEEDBACK_MS == 500 + 100
startTime == 0

(***************************************************************************)
(* Bounds of the model.                                                    *)
(***************************************************************************)
MaxIter == 2
MaxTokens == 2

(***************************************************************************)
(* Inputs.                                                                 *)
(***************************************************************************)
MaxOf(S) == CHOOSE x \in S : \A y \in S : y <= x
\* time spent in setup() before obtainTokens() reads millis()
SetupDelays == {1000}
\* extra time one pass of loop() may take on top of delay(2000): sensor
\* reads and blocking network calls
LoopExtras == {0, 297400}
\* http.POST(payload) of the upload: an HTTP status, or a negative
\* transport error of HTTPClient
UploadCodes == {200, 401, 500, -1}
\* a value of the DHT sensor: not-a-number, or a number
NaN == [nan |-> TRUE]
Num(v) == [nan |-> FALSE, val |-> v]
isnanNever(x) == FALSE
isnan(x) == x.nan
Samples == {NaN, Num(45)}

(***************************************************************************)
(* The authentication service (environment).  It issues a fresh pair of   *)
(* tokens with every accepted request.  A 200 answer may carry a body     *)
(* that is not the expected JSON object: a parsed body is the function    *)
(* from the keys it has to their string values, the empty function for a  *)
(* body that does not parse.                                               *)
(***************************************************************************)
AccessOf(n) == "access" \o ToString(n)
RefreshOf(n) == "refresh" \o ToString(n)
EmptyDoc == [k \in {} |-> ""]
FullBody(n) == [access |-> AccessOf(n), refresh |-> RefreshOf(n)]
Bodies(n) == { FullBody(n),
               [access |-> AccessOf(n)],
               [refresh |-> RefreshOf(n)],
               EmptyDoc }
WellFormed(body) == {"access", "refresh"} \subseteq DOMAIN body
FailCodes == {500, -1}
Answer(c, b) == [code |-> c, body |-> b]
\* the number of the pair the service issues next: one the node does not hold
FreshId(cred) ==
    CHOOSE n \in 1..MaxTokens :
        /\ AccessOf(n) # cred.jwtToken /\ RefreshOf(n) # cred.refreshTokenString
        /\ \A m \in 1..(n - 1) :
              AccessOf(m) = cred.jwtToken \/ RefreshOf(m) = cred.refreshTokenString
\* answers of the token endpoint
TokenAnswers(cred) ==
    {Answer(c, EmptyDoc) : c \in FailCodes}
      \cup {Answer(200, b) : b \in Bodies(FreshId(cred))}
\* answers of the refresh endpoint: 200 only for a refresh token the service
\* issued, never for the empty string or the text "null"
IssuedRefresh(tok) == \E k \in 1..MaxTokens : tok = RefreshOf(k)
RefreshAnswers(cred) ==
    {Answer(c, EmptyDoc) : c \in FailCodes}
      \cup (IF IssuedRefresh(cred.refreshTokenString)
              THEN {Answer(200, b) : b \in Bodies(FreshId(cred))} ELSE {})

(***************************************************************************)
(* ArduinoJson: doc[key].as<String>() is the value of the key, and the    *)
(* text "null" when the document has no such key.                          *)
(***************************************************************************)
AsString(doc, key) == IF key \in DOMAIN doc THEN doc[key] ELSE "null"

VARIABLES
    pc,                  \* position of the program: setup or a step of loop()
    now,                 \* millis()
    jwtToken,            \* String jwtToken
    refreshTokenString,  \* String refreshTokenString
    tokenExpiryTime,     \* unsigned long tokenExpiryTime
    eeprom,              \* the EEPROM cells
    buttonPressStartTime,
    buttonPressDetected,
    iter,                \* passes of loop() begun since the boot
    reading,             \* the Reading sampled in this pass of loop()
    net,                 \* the requests issued and the lease check made in
                         \* this pass of loop(), in order
    boot,                \* outcome of obtainTokens() in setup()
    renewal,             \* the last call of refreshToken()
    op                   \* the configuration change that restarted the node
                         \* (kept until the first pass of loop() after it);
                         \* under StoreSpec, UptimeSpec and WrapSpec, the
                         \* last operation applied and its result

vars == <<pc, now, jwtToken, refreshTokenString, tokenExpiryTime, eeprom,
          buttonPressStartTime, buttonPressDetected,
          iter, reading, net, boot, renewal, op>>

Cred == [jwtToken |-> jwtToken, refreshTokenString |-> refreshTokenString,
         tokenExpiryTime |-> tokenExpiryTime]
NoCred == [jwtToken |-> "", refreshTokenString |-> "", tokenExpiryTime |-> 0]

NoReading == [none |-> TRUE]
NoBoot == [done |-> FALSE]
NoRenewal == [done |-> FALSE]
NoOp == [kind |-> "none"]

(***************************************************************************)
(* HTTPClient: the request headers are a function from header names to    *)
(* values; addHeader(name, value) replaces the value of a header that is  *)
(* already set (the library's default, replace = true).                    *)
(***************************************************************************)
NoHeaders == [k \in {} |-> ""]
AddHeaderKeepFirst(headers, name, value) ==
    IF name \in DOMAIN headers THEN headers
    ELSE [k \in DOMAIN headers \cup {name} |->
            IF k = name THEN value ELSE headers[k]]
AddHeader(headers, name, value) ==
    [k \in DOMAIN headers \cup {name} |-> IF k = name THEN value ELSE headers[k]]
Bearer(token) == "Bearer " \o token

\* one request put on the network
UploadRequest(headers, payload, t, exp, code) ==
    [kind |-> "upload", auth |-> headers["Authorization"], payload |-> payload,
     at |-> t, exp |-> exp, code |-> code]
TokenRequest(t, ans) ==
    [kind |-> "token", at |-> t, code |-> ans.code, body |-> ans.body]
RefreshRequest(tok, t, ans) ==
    [kind |-> "refresh", refresh |-> tok, at |-> t, code |-> ans.code,
     body |-> ans.body]

(***************************************************************************)
(* bool obtainTokens(): with the link up, one POST to the token endpoint;  *)
(* on status 200 the three globals are assigned from the answer and the   *)
(* call returns true; otherwise nothing is assigned and it returns false. *)
(* The result is the returned flag, the globals after the call and the    *)
(* requests sent.                                                          *)
(***************************************************************************)
obtainTokens(cred, t, link, ans) ==
    IF ~link THEN [ok |-> FALSE, cred |-> cred, sent |-> <<>>]
    ELSE IF ans.code = 200
      THEN [ok |-> TRUE,
            cred |-> [jwtToken |-> AsString(ans.body, "access"),
                      refreshTokenString |-> AsString(ans.body, "refresh"),
                      tokenExpiryTime |-> t + LEASE_MS],
            sent |-> <<TokenRequest(t, ans)>>]
      ELSE [ok |-> FALSE, cred |-> cred, sent |-> <<TokenRequest(t, ans)>>]

(***************************************************************************)
(* bool refreshToken(): the same with the stored refresh token and the    *)
(* refresh endpoint.                                                       *)
(***************************************************************************)
refreshTokenKeepsRefresh(cred, t, link, ans) ==
    IF ~link THEN [ok |-> FALSE, cred |-> cred, sent |-> <<>>]
    ELSE IF ans.code = 200
      THEN [ok |-> TRUE,
            cred |-> [jwtToken |-> AsString(ans.body, "access"),
                      refreshTokenString |-> cred.refreshTokenString,
                      tokenExpiryTime |-> t + LEASE_MS],
            sent |-> <<RefreshRequest(cred.refreshTokenString, t, ans)>>]
      ELSE [ok |-> FALSE, cred |-> cred,
            sent |-> <<RefreshRequest(cred.refreshTokenString, t, ans)>>]
refreshToken(cred, t, link, ans) ==
    IF ~link THEN [ok |-> FALSE, cred |-> cred, sent |-> <<>>]
    ELSE IF ans.code = 200
      THEN [ok |-> TRUE,
            cred |-> [jwtToken |-> AsString(ans.body, "access"),
                      refreshTokenString |-> AsString(ans.body, "refresh"),
                      tokenExpiryTime |-> t + LEASE_MS],
            sent |-> <<RefreshRequest(cred.refreshTokenString, t, ans)>>]
      ELSE [ok |-> FALSE, cred |-> cred,
            sent |-> <<RefreshRequest(cred.refreshTokenString, t, ans)>>]

(***************************************************************************)
(* void sendDataToAPI(...): with the link up, POST the payload with the   *)
(* stored access token; on 401 call refreshToken() and, if it returned    *)
(* true, set the Authorization header again and POST once more.           *)
(* link, code1: link state and answer of the first POST; rlink, rans:     *)
(* link state and answer seen by refreshToken(); code2: answer of the     *)
(* second POST.                                                            *)
(***************************************************************************)
sendDataToAPIRetryLoop(cred, payload, t, link, code1, rlink, rans, code2) ==
    IF ~link THEN [cred |-> cred, sent |-> <<>>]
    ELSE
      LET h1 == AddHeader(AddHeader(NoHeaders, "Content-Type", "application/json"),
                          "Authorization", Bearer(cred.jwtToken))
          first == UploadRequest(h1, payload, t, cred.tokenExpiryTime, code1)
      IN IF code1 = 401
           THEN LET r == refreshToken(cred, t, rlink, rans)
                    h2 == AddHeader(h1, "Authorization", Bearer(r.cred.jwtToken))
                    again == UploadRequest(h2, payload, t, r.cred.tokenExpiryTime, code2)
                IN IF r.ok
                     THEN [cred |-> r.cred,
                           sent |-> <<first>> \o r.sent \o <<again>>
                                      \o (IF code2 = 401 THEN <<again>> ELSE <<>>)]
                     ELSE [cred |-> r.cred, sent |-> <<first>> \o r.sent]
           ELSE [cred |-> cred, sent |-> <<first>>]
sendDataToAPIRetryAny(cred, payload, t, link, code1, rlink, rans, code2) ==
    IF ~link THEN [cred |-> cred, sent |-> <<>>]
    ELSE
      LET h1 == AddHeader(AddHeader(NoHeaders, "Content-Type", "application/json"),
                          "Authorization", Bearer(cred.jwtToken))
          first == UploadRequest(h1, payload, t, cred.tokenExpiryTime, code1)
      IN IF code1 # 200
           THEN LET r == refreshToken(cred, t, rlink, rans)
                    h2 == AddHeader(h1, "Authorization", Bearer(r.cred.jwtToken))
                    again == UploadRequest(h2, payload, t, r.cred.tokenExpiryTime, code2)
                IN IF r.ok
                     THEN [cred |-> r.cred, sent |-> <<first>> \o r.sent \o <<again>>]
                     ELSE [cred |-> r.cred, sent |-> <<first>> \o r.sent]
           ELSE [cred |-> cred, sent |-> <<first>>]
sendDataToAPI(cred, payload, t, link, code1, rlink, rans, code2) ==
    IF ~link THEN [cred |-> cred, sent |-> <<>>]
    ELSE
      LET h1 == AddHeader(AddHeader(NoHeaders, "Content-Type", "application/json"),
                          "Authorization", Bearer(cred.jwtToken))
          first == UploadRequest(h1, payload, t, cred.tokenExpiryTime, code1)
      IN IF code1 = 401
           THEN LET r == refreshToken(cred, t, rlink, rans)
                    h2 == AddHeader(h1, "Authorization", Bearer(r.cred.jwtToken))
                    again == UploadRequest(h2, payload, t, r.cred.tokenExpiryTime, code2)
                IN IF r.ok
                     THEN [cred |-> r.cred, sent |-> <<first>> \o r.sent \o <<again>>]
                     ELSE [cred |-> r.cred, sent |-> <<first>> \o r.sent]
           ELSE [cred |-> cred, sent |-> <<first>>]

(***************************************************************************)
(* The EEPROM string store.  A cell address is 0..EEPROM_SIZE-1; the      *)
(* library ignores a write outside that range.  A String is a sequence of *)
(* bytes 1..255.  The content of the EEPROM is kept as the value `fill`   *)
(* that the cells never written hold (0xFF in erased flash) and the       *)
(* function `cells` from the addresses that hold another value to it.     *)
(***************************************************************************)
Cells == 0..(EEPROM_SIZE - 1)
EepromRead(mem, a) ==
    IF a \notin Cells THEN 0
    ELSE IF a \in DOMAIN mem.cells THEN mem.cells[a] ELSE mem.fill

\* the cells after the loop of writeStringToEEPROM run from index i on:
\* EEPROM.write(addr + k, data[k]) for i <= k < data.length(); a write
\* outside the EEPROM is ignored, and nothing is written after the last
\* character
WriteBytes(mem, addr, data, i) ==
    LET written == {a \in Cells : a - addr >= i /\ a - addr < Len(data)}
        byte(a) == IF a \in written THEN data[a - addr + 1] ELSE EepromRead(mem, a)
        dom == {a \in DOMAIN mem.cells \cup written : byte(a) # mem.fill}
    IN [fill |-> mem.fill, cells |-> [a \in dom |-> byte(a)]]

\* void writeStringToEEPROM(int addr, String data): begin, the write loop,
\* commit, end.  committed: EEPROM.commit() stored the buffer; a buffer that
\* was not committed is lost with EEPROM.end().
writeStringToEEPROM(mem, addr, data, committed) ==
    IF committed THEN WriteBytes(mem, addr, data, 0) ELSE mem

\* String readStringFromEEPROM(int addr): the bytes from addr up to the
\* first zero byte, at most 50 of them
RECURSIVE ReadBytes(_, _, _)
ReadBytes(mem, addr, i) ==
    IF i >= READ_MAX THEN <<>>
    ELSE LET character == EepromRead(mem, addr + i)
         IN IF character = 0 THEN <<>>
            ELSE <<character>> \o ReadBytes(mem, addr, i + 1)
readStringFromEEPROM(mem, addr) == ReadBytes(mem, addr, 0)

\* void storeWiFiConfig(ssid, password): two writes, each with its commit
storeWiFiConfig(mem, ssid, password, c1, c2) ==
    writeStringToEEPROM(writeStringToEEPROM(mem, SSID_ADDR, ssid, c1),
                        PASSWORD_ADDR, password, c2)

\* void clearWiFiConfig()
clearWiFiConfig(mem, c1, c2) ==
    writeStringToEEPROM(writeStringToEEPROM(mem, SSID_ADDR, <<>>, c1),
                        PASSWORD_ADDR, <<>>, c2)

\* EEPROM.readString(address) of the library: the bytes from address up to
\* the first zero byte.  The search for the zero byte runs on behind the
\* EEPROM_SIZE bytes of the buffer, and the library returns the empty String
\* when the zero byte it found lies further than one byte behind them.  So
\* with no zero byte in the buffer from address on, the result depends on
\* the byte of the heap that follows the buffer: when that byte is zero
\* (behind), the result is all the bytes from address to the end of the
\* buffer, otherwise it is the empty String.
EepromReadString(mem, address, behind) ==
    LET zeros == {a \in Cells : a >= address /\ EepromRead(mem, a) = 0}
        end == IF zeros # {} THEN CHOOSE z \in zeros : \A y \in zeros : z <= y
               ELSE EEPROM_SIZE
    IN IF zeros = {} /\ ~behind THEN <<>>
       ELSE [k \in 1..(end - address) |-> EepromRead(mem, address + k - 1)]

\* an EEPROM image: every cell holding fill, then the two strings written
\* at the two field addresses
Erased(fill) == [fill |-> fill, cells |-> [x \in {} |-> 0]]
Image(s, p, fill) ==
    WriteBytes(WriteBytes(Erased(fill), SSID_ADDR, s, 0), PASSWORD_ADDR, p, 0)

(***************************************************************************)
(* Arduino String operations used by parseSerialCommand(), on sequences   *)
(* of bytes.                                                               *)
(***************************************************************************)
IsSpace(c) == c \in {32, 9, 10, 11, 12, 13}
RECURSIVE TrimLeft(_)
TrimLeft(str) ==
    IF str # <<>> /\ IsSpace(Head(str)) THEN TrimLeft(Tail(str)) ELSE str
RECURSIVE TrimRight(_)
TrimRight(str) ==
    IF str # <<>> /\ IsSpace(str[Len(str)])
      THEN TrimRight(SubSeq(str, 1, Len(str) - 1)) ELSE str
trim(str) == TrimRight(TrimLeft(str))
toLowerCase(str) ==
    [i \in 1..Len(str) |-> IF str[i] >= 65 /\ str[i] <= 90 THEN str[i] + 32 ELSE str[i]]
startsWith(str, prefix) ==
    Len(str) >= Len(prefix) /\ SubSeq(str, 1, Len(prefix)) = prefix
\* index (from 0) of the first occurrence of c, -1 when there is none
indexOf(str, c) ==
    IF \E i \in 1..Len(str) : str[i] = c
      THEN (CHOOSE i \in 1..Len(str) :
              str[i] = c /\ \A j \in 1..(i - 1) : str[j] # c) - 1
      ELSE -1
substring(str, from) == SubSeq(str, from + 1, Len(str))

\* the texts "ssid ", "password " and "help"
TxtSsid == <<115, 115, 105, 100, 32>>
TxtPassword == <<112, 97, 115, 115, 119, 111, 114, 100, 32>>
TxtHelp == <<104, 101, 108, 112>>

(***************************************************************************)
(* What parseSerialCommand() does with one line read from the serial      *)
(* port: the EEPROM after it, whether ESP.restart() was called, the field *)
(* the command names and the two arguments it handed to storeWiFiConfig().*)
(***************************************************************************)
NoSave == [set |-> {}, ssid |-> <<>>, password |-> <<>>]
Save(set, ssid, password) == [set |-> set, ssid |-> ssid, password |-> password]
parseSerialCommand(mem, line, c1, c2, behind) ==
    LET command == toLowerCase(trim(line))
        spaceIndex == indexOf(command, 32)
        hasValue == spaceIndex # -1 /\ Len(command) > spaceIndex + 1
        value == substring(command, spaceIndex + 1)
        same == [mem |-> mem, restart |-> FALSE, save |-> NoSave]
    IN IF startsWith(command, TxtSsid)
         THEN IF hasValue
                THEN [mem |-> storeWiFiConfig(mem, value, EepromReadString(mem, 32, behind),
                                              c1, c2),
                      restart |-> TRUE,
                      save |-> Save({"ssid"}, value, EepromReadString(mem, 32, behind))]
                ELSE same
       ELSE IF startsWith(command, TxtPassword)
         THEN IF hasValue
                THEN [mem |-> storeWiFiConfig(mem, EepromReadString(mem, 0, behind), value,
                                              c1, c2),
                      restart |-> TRUE,
                      save |-> Save({"password"}, EepromReadString(mem, 0, behind), value)]
                ELSE same
       ELSE same

(***************************************************************************)
(* Inputs of the administrative surface.                                   *)
(***************************************************************************)
\* the lines "ssid Ab", "password b", "help"
LineSsid == TxtSsid \o <<65, 98>>
LinePassword == TxtPassword \o <<98>>
SerialLines == { LineSsid, LinePassword, TxtHelp }
\* a request to the web server: GET /, GET /config, POST /config
NoArgs == [k \in {} |-> <<>>]
Get(path) == [method |-> "GET", path |-> path, auth |-> TRUE, args |-> NoArgs]
Post(auth, args) == [method |-> "POST", path |-> "/config", auth |-> auth, args |-> args]
WebStrings == { <<97>>, <<97, 98, 99>> }
WebRequests ==
    { Get("/"), Get("/config"), Post(FALSE, NoArgs), Post(TRUE, NoArgs) }
    \cup { Post(TRUE, [ssid |-> v, password |-> w]) : v, w \in WebStrings }
\* the handler of POST /config: the EEPROM after it and whether the node
\* restarts
handleConfigPost(mem, req, c1, c2) ==
    IF ~req.auth THEN [mem |-> mem, restart |-> FALSE, save |-> NoSave]
    ELSE IF {"ssid", "password"} \subseteq DOMAIN req.args
      THEN [mem |-> storeWiFiConfig(mem, req.args["ssid"], req.args["password"], c1, c2),
            restart |-> TRUE,
            save |-> Save({"ssid", "password"}, req.args["ssid"], req.args["password"])]
      ELSE [mem |-> mem, restart |-> FALSE, save |-> NoSave]
\* server.handleClient() with one request pending
handleClient(mem, req, c1, c2) ==
    IF req.method = "POST" /\ req.path = "/config"
      THEN handleConfigPost(mem, req, c1, c2)
      ELSE [mem |-> mem, restart |-> FALSE, save |-> NoSave]

RESET_HOLD_MS == 3000

\* const char* ssid = "EVOS"; const char* password = "evos02122020";
WIFI_SSID == <<69, 86, 79, 83>>
WIFI_PASSWORD == <<101, 118, 111, 115, 48, 50, 49, 50, 50, 48, 50, 48>>
\* connectToWiFi(): WiFi.begin(ssid, password) with the two constants
connectToWiFi == [ssid |-> WIFI_SSID, password |-> WIFI_PASSWORD]

\* the lease check of loop(): "if (millis() > tokenExpiryTime)"
needsRenewal(t, expiry) == t > expiry

\* the Reading built by loop() and the payload sendDataToAPI() serializes
Payload(n, h, t, time) ==
    [pass |-> n, humidity |-> h, temperature |-> t,
     uptime |-> (time - startTime) \div 1000]

(***************************************************************************)
(* The state after construction: the globals as the program initializes   *)
(* them, the EEPROM as erased flash.                                       *)
(***************************************************************************)
Init ==
    /\ pc = "setup"
    /\ now = 0
    /\ jwtToken = ""
    /\ refreshTokenString = ""
    /\ tokenExpiryTime = 0
    /\ buttonPressStartTime = 0
    /\ buttonPressDetected = FALSE
    /\ iter = 0
    /\ reading = NoReading
    /\ net = <<>>
    /\ boot = NoBoot
    /\ renewal = NoRenewal
    /\ eeprom = Image(<<>>, <<>>, 255)
    /\ op = NoOp

\* ESP.restart(): the RAM is lost, the program starts again in setup()
Restart ==
    /\ pc' = "setup"
    /\ now' = 0
    /\ jwtToken' = ""
    /\ refreshTokenString' = ""
    /\ tokenExpiryTime' = 0
    /\ buttonPressStartTime' = 0
    /\ buttonPressDetected' = FALSE
    /\ iter' = 0
    /\ reading' = NoReading
    /\ net' = <<>>
    /\ boot' = NoBoot
    /\ renewal' = NoRenewal

SetCred(c) ==
    /\ jwtToken' = c.jwtToken
    /\ refreshTokenString' = c.refreshTokenString
    /\ tokenExpiryTime' = c.tokenExpiryTime

\* the record of one evaluation of the lease check of loop()
LeaseCheck(t, cred, due) == [kind |-> "check", at |-> t, cred |-> cred, due |-> due]

\* the record of one configuration change that ended in ESP.restart(): the
\* surface it came by, what it saved, the EEPROM before it and the results
\* of the two calls of EEPROM.commit()
ConfigChange(by, save, before, c1, c2) ==
    [kind |-> "config", by |-> by, set |-> save.set, ssid |-> save.ssid,
     password |-> save.password, before |-> before, c1 |-> c1, c2 |-> c2,
     restart |-> TRUE]

\* the record of one call of refreshToken()
Renewal(cred, t, link, ans, r) ==
    [done |-> TRUE, before |-> cred, at |-> t, link |-> link, ans |-> ans,
     ok |-> r.ok]

(***************************************************************************)
(* setup(): connectToWiFi(), startWebServer(), obtainTokens().  boot.wifi  *)
(* is the network the node joined.                                         *)
(***************************************************************************)
Setup ==
    /\ pc = "setup"
    /\ \E d \in SetupDelays, link \in BOOLEAN :
       \E ans \in IF link THEN TokenAnswers(Cred) ELSE {Answer(-1, EmptyDoc)} :
         LET r == obtainTokens(Cred, now + d, link, ans)
         IN /\ now' = now + d
            /\ SetCred(r.cred)
            /\ net' = r.sent
            /\ boot' = [done |-> TRUE, ok |-> r.ok, at |-> now + d, link |-> link,
                        ans |-> ans, wifi |-> connectToWiFi]
    /\ pc' = "sample"
    /\ UNCHANGED <<eeprom, buttonPressStartTime, buttonPressDetected,
                   iter, reading, renewal, op>>

(***************************************************************************)
(* loop(), lines 62-97: delay, read the sensor, return on not-a-number,   *)
(* build the reading.                                                      *)
(***************************************************************************)
LoopSample ==
    /\ pc = "sample"
    /\ iter < MaxIter
    /\ \E extra \in LoopExtras, h \in Samples, t \in Samples, f \in Samples :
         /\ now' = now + LOOP_DELAY_MS + extra
         /\ IF isnan(h) \/ isnan(t) \/ isnan(f)
              THEN /\ pc' = "sample"
                   /\ reading' = NoReading
              ELSE /\ pc' = "send"
                   /\ reading' = Payload(iter + 1, h, t, now')
    /\ iter' = iter + 1
    /\ net' = <<>>
    /\ renewal' = NoRenewal
    /\ op' = NoOp
    /\ UNCHANGED <<jwtToken, refreshTokenString, tokenExpiryTime, eeprom,
                   buttonPressStartTime, buttonPressDetected, boot>>

(***************************************************************************)
(* loop(), line 99: sendDataToAPI(...).  The link state and the answer    *)
(* that a call of refreshToken() would see are drawn whenever the first   *)
(* POST went out and was not answered 200; the other inputs that the call *)
(* does not read are not varied.                                           *)
(***************************************************************************)
SendDataToAPI ==
    /\ pc = "send"
    /\ \E link \in BOOLEAN :
       \E code1 \in IF link THEN UploadCodes ELSE {-1} :
       \E rlink \in IF link /\ code1 # 200 THEN BOOLEAN ELSE {FALSE} :
       \E rans \in IF rlink THEN RefreshAnswers(Cred) ELSE {Answer(-1, EmptyDoc)} :
       \E code2 \in IF rlink /\ rans.code = 200 THEN UploadCodes ELSE {-1} :
         LET r == sendDataToAPI(Cred, reading, now, link, code1, rlink, rans, code2)
         IN /\ SetCred(r.cred)
            /\ net' = net \o r.sent
            /\ renewal' = IF link /\ code1 = 401
                            THEN Renewal(Cred, now, rlink, rans,
                                         refreshToken(Cred, now, rlink, rans))
                            ELSE renewal
    /\ pc' = "serial"
    /\ UNCHANGED <<now, eeprom, buttonPressStartTime, buttonPressDetected,
                   iter, reading, boot, op>>

(***************************************************************************)
(* loop(), line 100: parseSerialCommand(), with no line pending or with   *)
(* one of lines.  behind: the byte that follows the buffer of the EEPROM  *)
(* library on the heap is zero.                                            *)
(***************************************************************************)
ParseSerialCommand(lines, commits) ==
    /\ pc = "serial"
    /\ \/ /\ pc' = "feedback"
          /\ UNCHANGED <<now, jwtToken, refreshTokenString, tokenExpiryTime, eeprom,
                         buttonPressStartTime, buttonPressDetected, iter, reading,
                         net, boot, renewal, op>>
       \/ \E line \in lines, c1 \in commits, c2 \in commits, behind \in BOOLEAN :
            LET r == parseSerialCommand(eeprom, line, c1, c2, behind)
            IN /\ eeprom' = r.mem
               /\ IF r.restart
                    THEN /\ Restart
                         /\ op' = ConfigChange("serial", r.save, eeprom, c1, c2)
                    ELSE /\ pc' = "feedback"
                         /\ UNCHANGED <<now, jwtToken, refreshTokenString,
                                        tokenExpiryTime, buttonPressStartTime,
                                        buttonPressDetected, iter, reading, net, boot,
                                        renewal, op>>

(***************************************************************************)
(* loop(), line 101: provideVisualFeedback(), delay(500) and delay(100).  *)
(***************************************************************************)
ProvideVisualFeedback ==
    /\ pc = "feedback"
    /\ now' = now + FEEDBACK_MS
    /\ pc' = "button"
    /\ UNCHANGED <<jwtToken, refreshTokenString, tokenExpiryTime, eeprom,
                   buttonPressStartTime, buttonPressDetected,
                   iter, reading, net, boot, renewal, op>>

(***************************************************************************)
(* loop(), line 102: checkResetButton().                                   *)
(***************************************************************************)
CheckResetButton(commits) ==
    /\ pc = "button"
    /\ \E pressed \in BOOLEAN, c1 \in commits, c2 \in commits :
         IF pressed
           THEN LET start == IF buttonPressDetected THEN buttonPressStartTime ELSE now
                IN IF now - start >= RESET_HOLD_MS
                     THEN /\ eeprom' = clearWiFiConfig(eeprom, c1, c2)
                          /\ Restart
                          /\ op' = ConfigChange("button",
                                                Save({"ssid", "password"}, <<>>, <<>>),
                                                eeprom, c1, c2)
                     ELSE /\ buttonPressStartTime' = start
                          /\ buttonPressDetected' = TRUE
                          /\ pc' = "renew"
                          /\ UNCHANGED <<now, jwtToken, refreshTokenString,
                                         tokenExpiryTime, eeprom, iter, reading, net,
                                         boot, renewal, op>>
           ELSE /\ buttonPressDetected' = FALSE
                /\ pc' = "renew"
                /\ UNCHANGED <<now, jwtToken, refreshTokenString, tokenExpiryTime,
                               eeprom, buttonPressStartTime, iter, reading, net,
                               boot, renewal, op>>

(***************************************************************************)
(* loop(), lines 103-109: the lease check and the renewal it triggers;    *)
(* loop() returns when the renewal fails.                                  *)
(***************************************************************************)
RenewalCheck ==
    /\ pc = "renew"
    /\ IF needsRenewal(now, tokenExpiryTime)
         THEN \E link \in BOOLEAN :
              \E ans \in IF link THEN RefreshAnswers(Cred) ELSE {Answer(-1, EmptyDoc)} :
                LET r == refreshToken(Cred, now, link, ans)
                IN /\ SetCred(r.cred)
                   /\ net' = net \o <<LeaseCheck(now, Cred,
                                                     needsRenewal(now, tokenExpiryTime))>>
                                   \o r.sent
                   /\ renewal' = Renewal(Cred, now, link, ans, r)
                   /\ pc' = IF r.ok THEN "handle" ELSE "sample"
         ELSE /\ pc' = "handle"
              /\ net' = net \o <<LeaseCheck(now, Cred, needsRenewal(now, tokenExpiryTime))>>
              /\ UNCHANGED <<jwtToken, refreshTokenString, tokenExpiryTime, renewal>>
    /\ UNCHANGED <<now, eeprom, buttonPressStartTime, buttonPressDetected,
                   iter, reading, boot, op>>

(***************************************************************************)
(* loop(), line 111: server.handleClient(), with no client or with one of *)
(* requests.                                                               *)
(***************************************************************************)
HandleClient(requests, commits) ==
    /\ pc = "handle"
    /\ \/ /\ pc' = "sample"
          /\ UNCHANGED <<now, jwtToken, refreshTokenString, tokenExpiryTime, eeprom,
                         buttonPressStartTime, buttonPressDetected, iter, reading,
                         net, boot, renewal, op>>
       \/ \E req \in requests, c1 \in commits, c2 \in commits :
            LET r == handleClient(eeprom, req, c1, c2)
            IN /\ eeprom' = r.mem
               /\ IF r.restart
                    THEN /\ Restart
                         /\ op' = ConfigChange("web", r.save, eeprom, c1, c2)
                    ELSE /\ pc' = "sample"
                         /\ UNCHANGED <<now, jwtToken, refreshTokenString,
                                        tokenExpiryTime, buttonPressStartTime,
                                        buttonPressDetected, iter, reading, net, boot,
                                        renewal, op>>

(***************************************************************************)
(* The session specification: every answer of the network, and of the     *)
(* administrative surface one serial line and two web requests, all       *)
(* commits succeeding.                                                     *)
(***************************************************************************)
Committed == {TRUE}
SessionLines == { TxtHelp }
SessionRequests == { Get("/"), Post(TRUE, [ssid |-> <<97>>, password |-> <<97, 98, 99>>]) }

Next ==
    \/ Setup
    \/ LoopSample
    \/ SendDataToAPI
    \/ ParseSerialCommand(SessionLines, Committed)
    \/ ProvideVisualFeedback
    \/ CheckResetButton(Committed)
    \/ RenewalCheck
    \/ HandleClient(SessionRequests, Committed)

Spec == Init /\ [][Next]_vars


(***************************************************************************)
(* The store specification: the string store alone, from every image      *)
(* built of two short strings, written and read back.                     *)
(***************************************************************************)
MaxLen == 2
StoreBytes == {97, 98}
StoreStrings == UNION {[1..n -> StoreBytes] : n \in 0..MaxLen}
StoreAddrs == {SSID_ADDR, PASSWORD_ADDR}

StoreInit ==
    /\ pc = "store"
    /\ now = 0
    /\ jwtToken = ""
    /\ refreshTokenString = ""
    /\ tokenExpiryTime = 0
    /\ buttonPressStartTime = 0
    /\ buttonPressDetected = FALSE
    /\ iter = 0
    /\ reading = NoReading
    /\ net = <<>>
    /\ boot = NoBoot
    /\ renewal = NoRenewal
    /\ eeprom \in {Image(s, p, fill) : s \in StoreStrings, p \in StoreStrings,
                                       fill \in {0, 255}}
    /\ op = NoOp

StoreWrite ==
    /\ pc = "store"
    /\ \E addr \in StoreAddrs, v \in StoreStrings, committed \in BOOLEAN :
         /\ eeprom' = writeStringToEEPROM(eeprom, addr, v, committed)
         /\ op' = [kind |-> "write", addr |-> addr, data |-> v,
                   committed |-> committed]
    /\ UNCHANGED <<pc, now, jwtToken, refreshTokenString, tokenExpiryTime,
                   buttonPressStartTime, buttonPressDetected, iter, reading, net,
                   boot, renewal>>

\* the read that follows a write, at the address written
StoreRead ==
    /\ pc = "store"
    /\ op.kind = "write"
    /\ op' = [kind |-> "read", addr |-> op.addr, data |-> op.data,
              committed |-> op.committed,
              result |-> readStringFromEEPROM(eeprom, op.addr)]
    /\ UNCHANGED <<pc, now, jwtToken, refreshTokenString, tokenExpiryTime, eeprom,
                   buttonPressStartTime, buttonPressDetected, iter, reading, net,
                   boot, renewal>>

StoreNext == StoreWrite \/ StoreRead

StoreSpec == StoreInit /\ [][StoreNext]_vars

(***************************************************************************)
(* The administration specification: the part of one pass of loop() that  *)
(* services the administrative surface (lines 100-111), with every serial *)
(* line and web request of the input sets, commits that may fail, and     *)
(* every store content of AdminImages.  It starts where the second pass   *)
(* of loop() reaches parseSerialCommand(): the node booted and obtained   *)
(* its first credential at 1000 ms, the first pass took no extra time and *)
(* the second one, sampled LEASE_MS + 2000 ms after the boot, uploaded    *)
(* its reading; the reset button is released, or held since the first     *)
(* pass.  A restart and the end of the pass end the behaviour.            *)
(***************************************************************************)
\* a name one byte longer than the span of the SSID field
LongName == [i \in 1..(PASSWORD_ADDR - SSID_ADDR + 1) |-> 98]
\* a stored SSID that reaches two bytes beyond address 32
StoredLong == [i \in 1..34 |-> 97]
AdminLines == SerialLines \cup { TxtSsid \o LongName }
AdminRequests == WebRequests \cup { Post(TRUE, [ssid |-> LongName, password |-> <<>>]) }
AdminImages ==
    { Image(s, p, fill) : s \in {<<>>, <<97>>, StoredLong}, p \in {<<>>, <<98>>},
                          fill \in {0, 255} }

FirstBootAt == MaxOf(SetupDelays)
FirstButtonAt == FirstBootAt + LOOP_DELAY_MS + FEEDBACK_MS
SecondPassAt == FirstButtonAt + LOOP_DELAY_MS + MaxOf(LoopExtras)
FirstAnswer == Answer(200, FullBody(1))

AdminInit ==
    /\ pc = "serial"
    /\ now = SecondPassAt
    /\ LET c == obtainTokens(NoCred, FirstBootAt, TRUE, FirstAnswer).cred
           r == Payload(2, Num(45), Num(45), SecondPassAt)
       IN /\ jwtToken = c.jwtToken
          /\ refreshTokenString = c.refreshTokenString
          /\ tokenExpiryTime = c.tokenExpiryTime
          /\ reading = r
          /\ net = sendDataToAPI(c, r, SecondPassAt, TRUE, 200, FALSE,
                                 Answer(-1, EmptyDoc), -1).sent
    /\ \/ buttonPressDetected = FALSE /\ buttonPressStartTime = 0
       \/ buttonPressDetected = TRUE /\ buttonPressStartTime = FirstButtonAt
    /\ iter = 2
    /\ boot = [done |-> TRUE, ok |-> TRUE, at |-> FirstBootAt, link |-> TRUE,
               ans |-> FirstAnswer, wifi |-> connectToWiFi]
    /\ renewal = NoRenewal
    /\ eeprom \in AdminImages
    /\ op = NoOp

AdminNext ==
    \/ ParseSerialCommand(AdminLines, BOOLEAN)
    \/ ProvideVisualFeedback
    \/ CheckResetButton(BOOLEAN)
    \/ RenewalCheck
    \/ HandleClient(AdminRequests, BOOLEAN)

AdminSpec == AdminInit /\ [][AdminNext]_vars

(***************************************************************************)
(* String formatUptime(unsigned long uptimeSeconds).  String(n) of an     *)
(* unsigned long is its decimal text.  The uptime loop() passes is        *)
(* (millis() - startTime) / 1000, at most MaxUptime.                       *)
(***************************************************************************)
UptimeFieldsCarry(uptimeSeconds) ==
    [days |-> uptimeSeconds \div 86400,
     hours |-> uptimeSeconds \div 3600,
     minutes |-> (uptimeSeconds % 3600) \div 60,
     seconds |-> uptimeSeconds % 60]
UptimeFields(uptimeSeconds) ==
    [days |-> uptimeSeconds \div 86400,
     hours |-> (uptimeSeconds % 86400) \div 3600,
     minutes |-> (uptimeSeconds % 3600) \div 60,
     seconds |-> uptimeSeconds % 60]
formatUptime(uptimeSeconds) ==
    LET f == UptimeFields(uptimeSeconds)
    IN ToString(f.days) \o "d " \o ToString(f.hours) \o "h "
         \o ToString(f.minutes) \o "m " \o ToString(f.seconds) \o "s"

(***************************************************************************)
(* The uptime specification: formatUptime() applied to the uptimes of     *)
(* UptimeInputs.                                                           *)
(***************************************************************************)
\* the largest value of (millis() - startTime) / 1000: (2^32 - 1) / 1000
MaxUptime == 4294967
UptimeStep == 997
UptimeSteps == 150
UptimeInputs ==
    {k * UptimeStep : k \in 0..UptimeSteps}
      \cup {59, 60, 3599, 3600, 3725, 86399, 86400, 90061, MaxUptime}

UptimeInit ==
    /\ pc = "uptime"
    /\ now = 0
    /\ jwtToken = ""
    /\ refreshTokenString = ""
    /\ tokenExpiryTime = 0
    /\ buttonPressStartTime = 0
    /\ buttonPressDetected = FALSE
    /\ iter = 0
    /\ reading = NoReading
    /\ net = <<>>
    /\ boot = NoBoot
    /\ renewal = NoRenewal
    /\ eeprom = Image(<<>>, <<>>, 255)
    /\ op = NoOp

FormatUptime ==
    /\ pc = "uptime"
    /\ \E n \in UptimeInputs :
         op' = [kind |-> "uptime", n |-> n, fields |-> UptimeFields(n),
                text |-> formatUptime(n)]
    /\ UNCHANGED <<pc, now, jwtToken, refreshTokenString, tokenExpiryTime, eeprom,
                   buttonPressStartTime, buttonPressDetected, iter, reading, net,
                   boot, renewal>>

UptimeSpec == UptimeInit /\ [][FormatUptime]_vars

(***************************************************************************)
(* The lease arithmetic on the 32-bit counter.  millis() and              *)
(* tokenExpiryTime are unsigned long, 32 bits wide: millis() wraps to 0   *)
(* after 2^32 - 1 ms and "millis() + 300000" is computed modulo 2^32.     *)
(* Here a time is counted in ticks of TICK_MS = 4 ms, so that the counter *)
(* wraps at 2^32 / 4 = 2^30 ticks; for times that are multiples of 4 ms   *)
(* the sum modulo 2^32 and the comparison are exactly those of the ticks. *)
(***************************************************************************)
TICK_MS == 4
WRAP_TICKS == 2^30
LEASE_TICKS == LEASE_MS \div TICK_MS
\* millis() when `elapsed` ticks have passed since it returned t
millisAfter(t, elapsed) == (t + elapsed) % WRAP_TICKS
\* "tokenExpiryTime = millis() + 300000" with millis() = t
leaseExpiry(t) == (t + LEASE_TICKS) % WRAP_TICKS

(***************************************************************************)
(* The wrap specification: a credential obtained at counter value t, and  *)
(* the lease check of loop() made `elapsed` ticks later.                  *)
(***************************************************************************)
WrapStep == 25000
WrapSteps == 10
WrapTimes ==
    {k * WrapStep : k \in 0..WrapSteps}
      \cup {WRAP_TICKS - k * WrapStep : k \in 1..WrapSteps}
      \cup {WRAP_TICKS - 1}
WrapElapsed ==
    {k * WrapStep : k \in 0..WrapSteps}
      \cup {650, LEASE_TICKS - 1, LEASE_TICKS, LEASE_TICKS + 1}

WrapInit ==
    /\ pc = "wrap"
    /\ now = 0
    /\ jwtToken = ""
    /\ refreshTokenString = ""
    /\ tokenExpiryTime = 0
    /\ buttonPressStartTime = 0
    /\ buttonPressDetected = FALSE
    /\ iter = 0
    /\ reading = NoReading
    /\ net = <<>>
    /\ boot = NoBoot
    /\ renewal = NoRenewal
    /\ eeprom = Image(<<>>, <<>>, 255)
    /\ op = NoOp

\* obtainTokens() or refreshToken() answered 200 when millis() was t
WrapObtain ==
    /\ pc = "wrap"
    /\ op = NoOp
    /\ \E t \in WrapTimes :
         /\ now' = t
         /\ tokenExpiryTime' = leaseExpiry(t)
         /\ op' = [kind |-> "obtained", t |-> t]
    /\ jwtToken' = AccessOf(1)
    /\ refreshTokenString' = RefreshOf(1)
    /\ UNCHANGED <<pc, eeprom, buttonPressStartTime, buttonPressDetected, iter,
                   reading, net, boot, renewal>>

\* the lease check of loop(), `elapsed` ticks after the credential was
\* obtained
WrapCheck ==
    /\ pc = "wrap"
    /\ op.kind = "obtained"
    /\ \E elapsed \in WrapElapsed :
         /\ now' = millisAfter(op.t, elapsed)
         /\ op' = [kind |-> "lease", t |-> op.t, elapsed |-> elapsed,
                   due |-> needsRenewal(now', tokenExpiryTime)]
    /\ UNCHANGED <<pc, jwtToken, refreshTokenString, tokenExpiryTime, eeprom,
                   buttonPressStartTime, buttonPressDetected, iter, reading, net,
                   boot, renewal>>

WrapNext == WrapObtain \/ WrapCheck

WrapSpec == WrapInit /\ [][WrapNext]_vars

(***************************************************************************)
(* Vocabulary of the claims.                                               *)
(***************************************************************************)
Uploads == {i \in 1..Len(net) : net[i].kind = "upload"}
Accepted(code) == code >= 200 /\ code <= 299
\* the node holds a credential
Authenticated == jwtToken # ""
\* an upload answered 401, directly followed by the refresh request of the
\* renewal sendDataToAPI() makes
RejectedThenRefresh(i) ==
    /\ i \in Uploads /\ net[i].code = 401
    /\ i + 1 <= Len(net) /\ net[i + 1].kind = "refresh"
\* the answer is a success as the specification defines it
GoodAnswer(code, body) == code = 200 /\ WellFormed(body)
\* setup() has just ended
AfterSetup == pc = "sample" /\ iter = 0 /\ boot.done

\* C1: no upload request is issued with a credential the service issued
\* whose expiry has been reached (now >= expires_at) unless a renewal was
\* attempted earlier in the same pass of loop().
C1_RenewalBeforeUpload ==
    \A i \in Uploads :
        ((\E n \in 1..MaxTokens : net[i].auth = Bearer(AccessOf(n)))
            /\ net[i].at >= net[i].exp)
            => \E j \in 1..(i - 1) : net[j].kind = "refresh"

\* C2: when an upload is answered 401 and the renewal that follows succeeds,
\* the same reading is uploaded exactly one more time, the retry carries the
\* access token just obtained and not the rejected one, and an accepted
\* retry is the only accepted delivery of the reading.
C2_RetryOnceWithNewToken ==
    \A i \in 1..Len(net) :
        (RejectedThenRefresh(i) /\ GoodAnswer(net[i + 1].code, net[i + 1].body))
            => /\ Uploads = {i, i + 2}
               /\ net[i + 2].payload = net[i].payload
               /\ net[i + 2].auth = Bearer(net[i + 1].body.access)
               /\ net[i + 2].auth # net[i].auth
               /\ Accepted(net[i + 2].code)
                    => Cardinality({k \in Uploads : Accepted(net[k].code)}) = 1
\* an upload was rejected, the renewal succeeded and the retry was accepted
C2_Witness ==
    \E i \in 1..Len(net) :
        /\ RejectedThenRefresh(i) /\ GoodAnswer(net[i + 1].code, net[i + 1].body)
        /\ i + 2 \in Uploads /\ Accepted(net[i + 2].code)
        /\ net[i].auth # Bearer("")

\* C3: when an upload is answered 401 and the renewal that follows fails (a
\* status other than 200, a transport failure, or a 200 answer whose body is
\* malformed or lacks a field), no further upload request is issued for the
\* reading, and the loop goes on.
C3_NoRetryAfterFailedRenewal ==
    \A i \in 1..Len(net) :
        (RejectedThenRefresh(i) /\ ~GoodAnswer(net[i + 1].code, net[i + 1].body))
            => /\ \A k \in Uploads : k <= i
               /\ pc \in {"serial", "feedback", "button", "renew", "handle",
                          "sample", "send"}

\* C4: at most two upload requests are issued for a reading, and every
\* upload request of a pass carries the reading sampled in that pass.
C4_AtMostTwoUploads ==
    /\ Cardinality(Uploads) <= 2
    /\ \A i \in Uploads : net[i].payload = reading /\ net[i].payload.pass = iter
\* the second pass of loop() issued two upload requests
C4_Witness == Cardinality(Uploads) = 2 /\ iter = 2

\* C5: a successful renewal replaces access token, refresh token and expiry
\* together; a renewal that failed by a status other than 200, a transport
\* failure or a missing link leaves all three as they were.
C5_RenewalAllOrNothing ==
    renewal.done =>
        /\ (renewal.link /\ GoodAnswer(renewal.ans.code, renewal.ans.body))
             => /\ Cred = [jwtToken |-> renewal.ans.body.access,
                           refreshTokenString |-> renewal.ans.body.refresh,
                           tokenExpiryTime |-> renewal.at + LEASE_MS]
                /\ jwtToken # renewal.before.jwtToken
                /\ refreshTokenString # renewal.before.refreshTokenString
                /\ tokenExpiryTime # renewal.before.tokenExpiryTime
        /\ (~renewal.link \/ renewal.ans.code # 200) => Cred = renewal.before
\* a renewal succeeded on a node that held a credential
C5_Witness ==
    /\ renewal.done /\ renewal.link
    /\ GoodAnswer(renewal.ans.code, renewal.ans.body)
    /\ renewal.before.jwtToken # ""
\* C6: a 200 answer whose body is malformed or lacks `access` or `refresh`
\* is a failure of acquisition and of renewal: the call reports failure and
\* the credential and expiry are unchanged, so an unauthenticated node stays
\* unauthenticated.
C6_MalformedIsFailure ==
    /\ (AfterSetup /\ boot.link /\ boot.ans.code = 200 /\ ~WellFormed(boot.ans.body))
         => ~boot.ok /\ Cred = NoCred /\ ~Authenticated
    /\ (renewal.done /\ renewal.link /\ renewal.ans.code = 200
          /\ ~WellFormed(renewal.ans.body))
         => ~renewal.ok /\ Cred = renewal.before

\* C7: with the credential of a successful acquisition at time t, the lease
\* check is due exactly when now >= t + 300 s; with no credential held it
\* is due.
C7_LeaseCheck ==
    \A i \in 1..Len(net) :
        net[i].kind = "check" =>
            /\ (/\ boot.ok /\ GoodAnswer(boot.ans.code, boot.ans.body)
                /\ net[i].cred = [jwtToken |-> boot.ans.body.access,
                                  refreshTokenString |-> boot.ans.body.refresh,
                                  tokenExpiryTime |-> boot.at + LEASE_MS])
                 => (net[i].due <=> net[i].at >= boot.at + LEASE_MS)
            /\ net[i].cred.jwtToken = "" => net[i].due

\* C8: after a failed initial acquisition the node holds no credential, and
\* no upload request is put on the network while no credential is held.
C8_NoUploadWithoutCredential ==
    /\ (AfterSetup /\ ~boot.ok) => Cred = NoCred
    /\ \A i \in Uploads : net[i].auth # Bearer("")

C10_RoundTrip ==
    (op.kind = "read" /\ op.committed /\ Len(op.data) < READ_MAX)
        => op.result = op.data

\* the configuration change that restarted the node, by the given surface
Changed(by) == op.kind = "config" /\ op.by = by

\* C11: after the configuration clear of the reset button, with both commits
\* succeeding, the stored SSID and the stored password read back as the
\* empty string, whatever the store held before.
C11_ClearReadsEmpty ==
    (Changed("button") /\ op.c1 /\ op.c2)
        => /\ readStringFromEEPROM(eeprom, SSID_ADDR) = <<>>
           /\ readStringFromEEPROM(eeprom, PASSWORD_ADDR) = <<>>

\* C12: the restart of a configuration change (web /config POST, serial
\* ssid or password command, reset-button clear) happens only when both
\* store writes were committed.
C12_RestartOnlyAfterCommit ==
    (op.kind = "config" /\ op.restart) => (op.c1 /\ op.c2)

\* C13: after network credentials were saved (committed) through the web
\* form or a serial command and the node restarted, setup() joins the
\* network with the saved SSID and the saved password.
C13_BootUsesSavedConfig ==
    (AfterSetup /\ op.kind = "config" /\ op.by \in {"web", "serial"}
       /\ op.c1 /\ op.c2)
        => \A field \in op.set : boot.wifi[field] = op[field]

\* C14: in every pass of loop() the step after the renewal check is the
\* servicing of the web server, also when the renewal of that pass failed.
C14_AdminServicedEveryPass ==
    [][pc = "renew" => pc' = "handle"]_vars

\* C15: a pass of loop() in which a sampled value is not-a-number issues no
\* upload request, leaves the credential and the stored configuration as
\* they were, and is followed by the next pass; no upload request ever
\* carries a not-a-number value.
C15_SensorErrorAbortsPass ==
    /\ [](\A i \in Uploads :
            ~net[i].payload.humidity.nan /\ ~net[i].payload.temperature.nan)
    /\ [][(pc = "sample" /\ iter' = iter + 1 /\ reading' = NoReading)
            => /\ net' = <<>>
               /\ Cred' = Cred
               /\ eeprom' = eeprom
               /\ pc' = "sample"]_vars
\* the second pass of an authenticated node read not-a-number from the sensor
C15_Witness ==
    /\ pc = "sample" /\ iter = 2 /\ reading = NoReading
    /\ Authenticated /\ net = <<>>

\* the upload failed by a status that is neither 2xx nor 401, or at
\* transport level
OtherFailure(code) == ~Accepted(code) /\ code # 401

\* C16: an upload request answered with a non-2xx status other than 401, or
\* failing at transport level, is followed in its pass by no other upload
\* request and by no renewal of the uploader (the next entry, if any, is
\* the lease check of loop()); when it is the first upload of the reading
\* it is the only one.
C16_NoRetryOnOtherFailure ==
    \A i \in Uploads :
        OtherFailure(net[i].code)
            => /\ \A k \in Uploads : k <= i
               /\ (i + 1 <= Len(net)) => net[i + 1].kind = "check"
               /\ (\A k \in Uploads : k >= i) => Uploads = {i}
\* the upload of a reading was answered 500, or failed at transport level,
\* with a credential the service issued, and the pass went on to the lease
\* check
C16_Witness ==
    /\ Len(net) = 2 /\ net[2].kind = "check"
    /\ net[1].kind = "upload" /\ net[1].code \in {500, -1}
    /\ net[1].auth = Bearer(AccessOf(1))

\* C17: the fields d, h, m, s of formatUptime(n) satisfy
\* d*86400 + h*3600 + m*60 + s = n with h < 24, m < 60 and s < 60, the text
\* is the four fields with their unit letters, and 3725 s formats as
\* "0d 1h 2m 5s".
C17_FormatUptime ==
    op.kind = "uptime" =>
        /\ op.fields.days * 86400 + op.fields.hours * 3600
             + op.fields.minutes * 60 + op.fields.seconds = op.n
        /\ op.fields.hours < 24 /\ op.fields.minutes < 60 /\ op.fields.seconds < 60
        /\ op.fields.days >= 0 /\ op.fields.hours >= 0
        /\ op.fields.minutes >= 0 /\ op.fields.seconds >= 0
        /\ op.text = ToString(op.fields.days) \o "d " \o ToString(op.fields.hours)
                       \o "h " \o ToString(op.fields.minutes) \o "m "
                       \o ToString(op.fields.seconds) \o "s"
        /\ op.n = 3725 => op.text = "0d 1h 2m 5s"
\* an uptime of more than a day, with every field positive, was formatted
C17_Witness ==
    /\ op.kind = "uptime" /\ op.n = 90061
    /\ op.text = "1d 1h 1m 1s"

\* C18: when network credentials are saved by the web form or a serial
\* command, the write of the SSID changes no cell of the password field
\* (address 50 onward), and the SSID read back holds no more bytes than
\* lie before the password field.
C18_FieldsDoNotOverlap ==
    (op.kind = "config" /\ op.by \in {"web", "serial"})
        => LET afterSsid == writeStringToEEPROM(op.before, SSID_ADDR, op.ssid, op.c1)
           IN /\ \A a \in Cells :
                    a >= PASSWORD_ADDR
                        => EepromRead(afterSsid, a) = EepromRead(op.before, a)
              /\ Len(readStringFromEEPROM(eeprom, SSID_ADDR))
                    <= PASSWORD_ADDR - SSID_ADDR

\* C19: the serial command `ssid <value>`, with a value that fits the SSID
\* field, leaves the password read back from the store as it was before
\* the command; the command `password <value>` leaves the SSID read back
\* as it was.
C19_SerialCommandFrame ==
    Changed("serial")
        => /\ (op.set = {"ssid"} /\ Len(op.ssid) <= PASSWORD_ADDR - SSID_ADDR)
                => readStringFromEEPROM(eeprom, PASSWORD_ADDR)
                     = readStringFromEEPROM(op.before, PASSWORD_ADDR)
           /\ op.set = {"password"}
                => readStringFromEEPROM(eeprom, SSID_ADDR)
                     = readStringFromEEPROM(op.before, SSID_ADDR)

\* C20: on the 32-bit counter the lease check of a credential obtained at
\* counter value t is due when more than 300 s have elapsed since then and
\* is not due when less than 300 s have elapsed, also when t + 300 s
\* overflows or the counter wraps after t.
C20_LeaseCheckAcrossWrap ==
    op.kind = "lease"
        => /\ op.elapsed > LEASE_TICKS => op.due
           /\ op.elapsed < LEASE_TICKS => ~op.due

====
